---- MODULE Spec2Model ----
(***************************************************************************)
(* A model of LiquidLevelWidgetComponent                                   *)
(* (ui-ngx/src/app/modules/home/components/widget/lib/indicator/           *)
(*  liquid-level-widget.component.ts).                                     *)
(*                                                                         *)
(* JavaScript numbers are modelled as exact rationals <<n, d>> with d >= 0 *)
(* in lowest terms; d = 0 encodes the IEEE specials: <<0,0>> is NaN,       *)
(* <<1,0>> is +Infinity and <<-1,0>> is -Infinity.  Rounding error of      *)
(* doubles is abstracted away; NaN/Infinity propagation and the order of   *)
(* comparisons are kept.                                                   *)
(***************************************************************************)
EXTENDS Integers, Sequences, FiniteSets, TLC

(***************************************************************************)
(* Bounds of the model                                                     *)
(***************************************************************************)
\* numeric measurements are 100 * k - 50 for k in 0 .. MaxRaw
MaxRaw == 2
\* timestamps of measurements are 1 .. MaxTs
MaxTs == 1
\* percentages probed by the position calculator are 10 * k, k in -MaxProbe .. 10 + MaxProbe
MaxProbe == 2
\* limits probed by the position calculator are 20 * k for k in 0 .. MaxLimit
MaxLimit == 9
\* animations that may wait in the fx queue of an element
MaxQueue == 2

(***************************************************************************)
(* JavaScript values                                                       *)
(***************************************************************************)
Abs(x) == IF x < 0 THEN -x ELSE x

Sign(x) == IF x < 0 THEN -1 ELSE IF x > 0 THEN 1 ELSE 0

RECURSIVE Gcd(_, _)
Gcd(a, b) == IF b = 0 THEN a ELSE Gcd(b, a % b)

\* the number n/d in canonical form
Norm(n, d) ==
  IF d = 0 THEN <<Sign(n), 0>>
  ELSE LET g == Gcd(Abs(n), Abs(d))
           s == IF d < 0 THEN -1 ELSE 1
       IN  <<(s * n) \div g, (s * d) \div g>>

NaN == <<0, 0>>
Infinity == <<1, 0>>
IntNum(i) == <<i, 1>>

IsNaN(a) == a = NaN
IsFinite(a) == a[2] # 0

Mul(a, b) == Norm(a[1] * b[1], a[2] * b[2])

Inverse(a) == IF a[1] < 0 THEN <<-a[2], -a[1]>> ELSE <<a[2], a[1]>>

Div(a, b) == LET i == Inverse(b) IN Norm(a[1] * i[1], a[2] * i[2])

Add(a, b) ==
  IF a[2] = 0 /\ b[2] = 0
  THEN (IF a = b THEN a ELSE NaN)
  ELSE Norm(a[1] * b[2] + b[1] * a[2], a[2] * b[2])

Sub(a, b) == Add(a, <<-b[1], b[2]>>)

\* a >= b and a <= b of JavaScript: false as soon as one side is NaN
Geq(a, b) ==
  IF IsNaN(a) \/ IsNaN(b) THEN FALSE
  ELSE IF a[2] = 0 THEN (a[1] > 0 \/ a = b)
  ELSE IF b[2] = 0 THEN b[1] < 0
  ELSE a[1] * b[2] >= b[1] * a[2]

Leq(a, b) == Geq(b, a)

\* values of type any: undefined, null, a number or a string
Undefined == [t |-> "undefined", num |-> NaN, str |-> ""]
Null == [t |-> "null", num |-> NaN, str |-> ""]
JsNum(a) == [t |-> "number", num |-> a, str |-> ""]
JsStr(s) == [t |-> "string", num |-> NaN, str |-> s]

\* @core/utils
isDefined(v) == v.t # "undefined"
isDefinedAndNotNull(v) == v.t # "undefined" /\ v.t # "null"
isNumber(v) == v.t = "number"
isString(v) == v.t = "string"

\* Number(v): undefined and non-numeric text give NaN, null and "" give 0.
\* No text the model exchanges spells a number.
ToNumber(v) ==
  CASE v.t = "number" -> v.num
    [] v.t = "null" -> IntNum(0)
    [] v.t = "undefined" -> NaN
    [] OTHER -> IF v.str = "" THEN IntNum(0) ELSE NaN

\* if (v): undefined, null, 0, NaN and "" are falsy
Truthy(v) ==
  CASE v.t = "number" -> ~IsNaN(v.num) /\ v.num # IntNum(0)
    [] v.t = "string" -> v.str # ""
    [] OTHER -> FALSE

(***************************************************************************)
(* Number.prototype.toFixed                                                *)
(***************************************************************************)
RECURSIVE Pow10(_)
Pow10(k) == IF k = 0 THEN 1 ELSE 10 * Pow10(k - 1)

RECURSIVE Digits(_, _)
Digits(q, k) == IF k = 0 THEN "" ELSE Digits(q \div 10, k - 1) \o ToString(q % 10)

toFixed(a, decimals) ==
  IF IsNaN(a) THEN "NaN"
  ELSE IF a[2] = 0 THEN (IF a[1] > 0 THEN "Infinity" ELSE "-Infinity")
  ELSE LET scaled == Abs(a[1]) * Pow10(decimals)
           \* nearest integer to |a| * 10^decimals, the larger one on a tie
           q == (2 * scaled + a[2]) \div (2 * a[2])
           body == ToString(q \div Pow10(decimals)) \o
                   (IF decimals = 0 THEN "" ELSE "." \o Digits(q % Pow10(decimals), decimals))
       IN  IF a[1] < 0 /\ q # 0 THEN "-" \o body ELSE body

(***************************************************************************)
(* liquid-level-widget.models: units, shapes, attribute lookup             *)
(***************************************************************************)
Percent == JsStr("%")

\* liters per unit of the capacity units of the model
LitersPerUnit(u) ==
  CASE u = JsStr("L") -> IntNum(1)
    [] u = JsStr("mL") -> <<1, 1000>>
    [] OTHER -> NaN

CapacityUnits == {Percent, JsStr("L"), JsStr("mL")}

ValidUnit(u) == u \in CapacityUnits

\* convertLiters(value, units, conversionType) for a unit of CapacityUnits;
\* for any other unit the call raises InvalidUnit (see ValidUnit)
convertLiters(value, units, conversionType) ==
  IF units = Percent THEN value
  ELSE IF conversionType = "to" THEN Mul(value, LitersPerUnit(units))
  ELSE Div(value, LitersPerUnit(units))

VCylinder == JsStr("Vertical Cylinder")
Rectangle == JsStr("Rectangle")

NoSvgParams == [known |-> FALSE, min |-> NaN, max |-> NaN]

\* svgMapping.get(shape): the limits of the shape's template, or undefined.
\* Vertical Cylinder grows upwards (max < min); Rectangle stands for a
\* template whose limits grow with the level (min < max).
svgMapping(shape) ==
  CASE shape = VCylinder -> [known |-> TRUE, min |-> IntNum(180), max |-> IntNum(20)]
    [] shape = Rectangle -> [known |-> TRUE, min |-> IntNum(40), max |-> IntNum(200)]
    [] OTHER -> NoSvgParams

\* extractValue(attributes, attributeName, defaultValue); attributes is a
\* function from the keys of the returned attributes to their values
extractValue(attributes, attributeName, defaultValue) ==
  IF attributeName \in DOMAIN attributes THEN attributes[attributeName] ELSE defaultValue

(***************************************************************************)
(* State                                                                   *)
(***************************************************************************)
VARIABLES
  settings,    \* this.settings: levelCardDefaultSettings merged with ctx.settings
  entityReal,  \* ctx.datasources[0].entityId !== NULL_UUID
  ctxData,     \* ctx.data[0]?.data[0]: NoData or a measurement [ts, value]
  phase,       \* where the subscription of ngOnInit stands
  loadedSvg,   \* the template loadSVG emitted, kept for the map of getData
  fetches,     \* the calls of attributeService.getEntityAttributes, in order
  loads,       \* the number of calls of loadSVG
  tooltipImport, \* import('tooltipster') of createTooltip is pending
  widget,      \* the fields of the component and the DOM below its element
  probe,       \* inputs and result of the position calculator on its own
  destroyed,   \* destroy() has run
  followFx     \* the fx queue of the liquid elements is followed

vars == <<settings, entityReal, ctxData, phase, loadedSvg, fetches, loads,
          tooltipImport, widget, probe, destroyed, followFx>>

NoData == [present |-> FALSE, ts |-> 0, value |-> Undefined]
Measurement(ts, v) == [present |-> TRUE, ts |-> ts, value |-> v]

RawValues == {JsNum(IntNum(100 * k - 50)) : k \in 0 .. MaxRaw}

Measurements ==
  {Measurement(ts, v) : ts \in 1 .. MaxTs,
                        v \in RawValues \cup {Undefined, Null, JsStr("abc")}}

\* a layout rendered into a value container
NoContent == [set |-> FALSE, value |-> "", volume |-> "", units |-> Undefined]
\* the content of the tooltip
NoTooltipContent == [set |-> FALSE, level |-> "", ts |-> 0]

\* a ColorProcessor holds the colour of the value it was last updated with;
\* fromSettings gives the colour of the settings
SettingsColor == JsStr("settings")

\* the component after its constructor, over an empty element
NewWidget ==
  [ svg |-> FALSE,
    svgParams |-> NoSvgParams,
    shape |-> Undefined,
    volume |-> Undefined,
    widgetUnits |-> Undefined,
    tooltip |-> FALSE,
    tooltipContent |-> NoTooltipContent,
    overlayContainer |-> "none",
    tankColor |-> Undefined,
    valueColor |-> Undefined,
    liquidColor |-> Undefined,
    backgroundOverlayColor |-> Undefined,
    tooltipLevelColor |-> Undefined,
    tooltipDate |-> 0,
    \* the DOM
    shapeColor |-> Undefined,
    liquidFill |-> Undefined,
    liquidY |-> Undefined,
    liquidMove |-> "none",
    \* jQuery's fx queue of the liquid elements: the targets of the animations
    \* that have not finished, the running one first; and where the surface is
    fxQueue |-> <<>>,
    surfaceY |-> Undefined,
    \* what the last tick did, in the order it did it
    steps |-> <<>>,
    \* the last measurement updateData accepted
    accepted |-> NoData,
    \* the tooltipster instances alive, and whether the tooltip is open
    tooltips |-> 0,
    tooltipOpen |-> FALSE,
    overlayFill |-> Undefined,
    percentageContent |-> NoContent,
    absoluteContent |-> NoContent,
    shownTooltip |-> NoTooltipContent,
    \* what the last accepted tick computed
    percentage |-> Undefined,
    value |-> "",
    \* an InvalidUnit error left a handler
    thrown |-> FALSE ]

(***************************************************************************)
(* The methods of the component, as functions of the component w           *)
(***************************************************************************)
declareStyles(w) ==
  [w EXCEPT !.tankColor = SettingsColor,
            !.valueColor = SettingsColor,
            !.liquidColor = SettingsColor,
            !.backgroundOverlayColor = SettingsColor,
            !.tooltipLevelColor = SettingsColor]

\* convertInputData dividing by this.volume as if it were in liters
convertInputDataRawVolume(w, value) ==
  IF settings.datasourceUnits # Percent
  THEN Mul(Div(convertLiters(value, settings.datasourceUnits, "to"), ToNumber(w.volume)),
           IntNum(100))
  ELSE value

convertInputData(w, value) ==
  IF settings.datasourceUnits # Percent
  THEN Mul(Div(convertLiters(value, settings.datasourceUnits, "to"),
               convertLiters(ToNumber(w.volume), settings.volumeUnits, "to")),
           IntNum(100))
  ELSE value

convertOutputData(w, value) ==
  IF w.widgetUnits # Percent
  THEN convertLiters(Mul(ToNumber(w.volume), Div(value, IntNum(100))),
                     settings.volumeUnits, "to")
  ELSE value

convertTooltipData(w, value) ==
  LET percentage == convertInputData(w, value) IN
  IF settings.tooltipUnits # Percent
  THEN convertLiters(convertOutputData(w, percentage), settings.tooltipUnits, "from")
  ELSE percentage

\* calculatePosition interpolating towards limits.max instead of by the span
calculatePositionNoSpan(percentage, limits) ==
  IF Geq(percentage, IntNum(100)) THEN limits.max
  ELSE IF Leq(percentage, IntNum(0)) THEN limits.min
  ELSE Add(limits.min, Mul(Div(percentage, IntNum(100)), limits.max))

calculatePosition(percentage, limits) ==
  IF Geq(percentage, IntNum(100)) THEN limits.max
  ELSE IF Leq(percentage, IntNum(0)) THEN limits.min
  ELSE Add(limits.min, Mul(Div(percentage, IntNum(100)), Sub(limits.max, limits.min)))

updateShapeColor(w, value) ==
  [w EXCEPT !.tankColor = JsNum(value), !.shapeColor = JsNum(value),
            !.steps = @ \o <<"tankColor.update", "shape.attr">>]

\* css() sets the coordinate at once; animate() appends a 500 ms animation
\* to the element's fx queue, which runs its entries one after the other
updateLevel(w, newY, percentage, ignoreAnimation) ==
  LET w1 == [w EXCEPT !.liquidColor = JsNum(percentage),
                      !.liquidY = JsNum(newY),
                      !.liquidMove = IF ignoreAnimation THEN "css" ELSE "animate",
                      !.liquidFill = JsNum(percentage),
                      !.steps = @ \o <<"liquidColor.update", "liquid.move", "liquid.attr">>]
  IN  IF ~followFx THEN w1
      ELSE IF ignoreAnimation THEN [w1 EXCEPT !.surfaceY = JsNum(newY)]
      ELSE [w1 EXCEPT !.fxQueue = Append(@, newY)]

\* updateSvg moving the liquid before it colours the shape
updateSvgLevelFirst(w, percentage, ignoreAnimation) ==
  LET yLimits == [min |-> w.svgParams.min, max |-> w.svgParams.max]
      newYPos == calculatePosition(percentage, yLimits)
      w1 == [w EXCEPT !.steps = Append(@, "calculatePosition")]
  IN  updateShapeColor(updateLevel(w1, newYPos, percentage, ignoreAnimation), percentage)

updateSvg(w, percentage, ignoreAnimation) ==
  LET yLimits == [min |-> w.svgParams.min, max |-> w.svgParams.max]
      newYPos == calculatePosition(percentage, yLimits)
      w1 == [w EXCEPT !.steps = Append(@, "calculatePosition")]
  IN  updateLevel(updateShapeColor(w1, percentage), newYPos, percentage, ignoreAnimation)

\* updateValueElement formatting the percentage whatever the data is
valueTextOfPercentage(w, data, percentage) ==
  toFixed(convertLiters(convertOutputData(w, percentage), w.widgetUnits, "from"),
          settings.decimals)

\* the value updateValueElement shows for data
valueText(w, data, percentage) ==
  IF isNumber(data)
  THEN toFixed(convertLiters(convertOutputData(w, percentage), w.widgetUnits, "from"),
               settings.decimals)
  ELSE "N/A"

\* convertLiters raises InvalidUnit inside updateValueElement
valueElementThrows(w, data) ==
  /\ ~ValidUnit(w.widgetUnits)
  /\ (isNumber(data) \/ settings.layout = "absolute")

\* updateValueElement rendering the percentage layout whenever the layout is
\* not absolute
updateValueElementAnyLayout(w, data, percentage) ==
  IF isNumber(data) /\ ~ValidUnit(w.widgetUnits)
  THEN [w EXCEPT !.thrown = TRUE]
  ELSE
    LET value == valueText(w, data, percentage)
        w1 == [w EXCEPT !.value = value,
                        !.valueColor = JsStr(value),
                        !.backgroundOverlayColor = JsNum(percentage),
                        !.overlayFill = IF w.overlayContainer # "none"
                                        THEN JsNum(percentage) ELSE @,
                        !.steps = @ \o <<"value", "valueColor.update",
                                         "backgroundOverlayColor.update">>
                                    \o (IF w.overlayContainer # "none"
                                        THEN <<"overlayContainer.attr">> ELSE <<>>)]
    IN  IF settings.layout = "absolute"
        THEN IF ~ValidUnit(w.widgetUnits)
             THEN [w1 EXCEPT !.thrown = TRUE]
             ELSE LET volumeInLiters ==
                        convertLiters(ToNumber(w.volume), settings.volumeUnits, "to")
                      volume == toFixed(convertLiters(volumeInLiters, w.widgetUnits, "from"),
                                        settings.decimals)
                  IN  [w1 EXCEPT !.absoluteContent =
                         [set |-> TRUE, value |-> value, volume |-> volume,
                          units |-> w.widgetUnits],
                                 !.steps = Append(@, "container.html")]
        ELSE [w1 EXCEPT !.percentageContent =
                [set |-> TRUE, value |-> value, volume |-> "", units |-> Undefined],
                        !.steps = Append(@, "container.html")]

updateValueElement(w, data, percentage) ==
  IF isNumber(data) /\ ~ValidUnit(w.widgetUnits)
  THEN [w EXCEPT !.thrown = TRUE]
  ELSE
    LET value == valueText(w, data, percentage)
        w1 == [w EXCEPT !.value = value,
                        !.valueColor = JsStr(value),
                        !.backgroundOverlayColor = JsNum(percentage),
                        !.overlayFill = IF w.overlayContainer # "none"
                                        THEN JsNum(percentage) ELSE @,
                        !.steps = @ \o <<"value", "valueColor.update",
                                         "backgroundOverlayColor.update">>
                                    \o (IF w.overlayContainer # "none"
                                        THEN <<"overlayContainer.attr">> ELSE <<>>)]
    IN  IF settings.layout = "absolute"
        THEN IF ~ValidUnit(w.widgetUnits)
             THEN [w1 EXCEPT !.thrown = TRUE]
             ELSE LET volumeInLiters ==
                        convertLiters(ToNumber(w.volume), settings.volumeUnits, "to")
                      volume == toFixed(convertLiters(volumeInLiters, w.widgetUnits, "from"),
                                        settings.decimals)
                  IN  [w1 EXCEPT !.absoluteContent =
                         [set |-> TRUE, value |-> value, volume |-> volume,
                          units |-> w.widgetUnits],
                                 !.steps = Append(@, "container.html")]
        ELSE IF settings.layout = "percentage"
        THEN [w1 EXCEPT !.percentageContent =
                [set |-> TRUE, value |-> value, volume |-> "", units |-> Undefined],
                        !.steps = Append(@, "container.html")]
        ELSE w1

\* getTooltipContent(value): the content; data is NoData for a call without value
tooltipLevel(w, data) ==
  IF data.present /\ isNumber(data.value)
  THEN toFixed(convertTooltipData(w, data.value.num), settings.tooltipLevelDecimals)
         \o settings.tooltipUnits.str
  ELSE "N/A"

getTooltipContent(w, data) ==
  [set |-> TRUE,
   level |-> IF settings.showTooltipLevel THEN tooltipLevel(w, data) ELSE "",
   ts |-> IF settings.showTooltipDate THEN data.ts ELSE 0]

\* the updates of the tooltip's colour and date processors in getTooltipContent
tooltipProcessors(w, data) ==
  [w EXCEPT !.tooltipLevelColor =
              IF data.present /\ isNumber(data.value)
              THEN JsNum(convertTooltipData(w, data.value.num)) ELSE JsStr("N/A"),
            !.tooltipDate = data.ts]

\* updateTooltip handing the content to the instance without keeping it
updateTooltipInstanceOnly(w, data) ==
  LET content == getTooltipContent(w, data) IN
  [tooltipProcessors(w, data) EXCEPT
     !.shownTooltip = IF w.tooltip THEN content ELSE @,
     !.steps = @ \o <<"tooltipContent">>
                 \o (IF w.tooltip THEN <<"tooltip.content">> ELSE <<>>)]

updateTooltip(w, data) ==
  LET content == getTooltipContent(w, data) IN
  [tooltipProcessors(w, data) EXCEPT
     !.tooltipContent = content,
     !.shownTooltip = IF w.tooltip THEN content ELSE @,
     !.steps = @ \o <<"tooltipContent">>
                 \o (IF w.tooltip THEN <<"tooltip.content">> ELSE <<>>)]

\* updateData leaving the level where it is for a value that is no number
updateDataSkipPosition(w, data, ignoreAnimation) ==
  IF data.present /\ isDefinedAndNotNull(data.value)
  THEN LET percentage == IF isNumber(data.value)
                         THEN convertInputData(w, data.value.num) ELSE IntNum(0)
           w0 == [w EXCEPT !.steps = <<"percentage">>, !.accepted = data]
           w1 == IF isNumber(data.value)
                 THEN [updateSvg(w0, percentage, ignoreAnimation)
                         EXCEPT !.percentage = JsNum(percentage)]
                 ELSE [w0 EXCEPT !.percentage = JsNum(percentage)]
           w2 == updateValueElement(w1, data.value, percentage)
       IN  IF valueElementThrows(w1, data.value) \/ ~settings.showTooltip
           THEN w2
           ELSE updateTooltip(w2, data)
  ELSE w

\* updateData accepting a measurement whose value is undefined or null
updateDataNoValueCheck(w, data, ignoreAnimation) ==
  IF data.present
  THEN LET percentage == IF isNumber(data.value)
                         THEN convertInputData(w, data.value.num) ELSE IntNum(0)
           w0 == [w EXCEPT !.steps = <<"percentage">>, !.accepted = data]
           w1 == [updateSvg(w0, percentage, ignoreAnimation)
                    EXCEPT !.percentage = JsNum(percentage)]
           w2 == updateValueElement(w1, data.value, percentage)
       IN  IF valueElementThrows(w1, data.value) \/ ~settings.showTooltip
           THEN w2
           ELSE updateTooltip(w2, data)
  ELSE w

updateData(w, data, ignoreAnimation) ==
  IF data.present /\ isDefinedAndNotNull(data.value)
  THEN LET percentage == IF isNumber(data.value)
                         THEN convertInputData(w, data.value.num) ELSE IntNum(0)
           w0 == [w EXCEPT !.steps = <<"percentage">>, !.accepted = data]
           w1 == [updateSvg(w0, percentage, ignoreAnimation)
                    EXCEPT !.percentage = JsNum(percentage)]
           w2 == updateValueElement(w1, data.value, percentage)
       IN  IF valueElementThrows(w1, data.value) \/ ~settings.showTooltip
           THEN w2
           ELSE updateTooltip(w2, data)
  ELSE w

\* update without the test of this.svg
updateNoSvgCheck(w, data, ignoreAnimation) == updateData(w, data, ignoreAnimation)

update(w, data, ignoreAnimation) ==
  IF w.svg THEN updateData(w, data, ignoreAnimation) ELSE w

createValueElement(w) ==
  LET container == IF settings.layout \in {"absolute", "percentage"}
                   THEN settings.layout ELSE "none"
  IN  [w EXCEPT !.overlayContainer = container,
                !.overlayFill = IF container # "none" THEN w.backgroundOverlayColor ELSE @]

createTooltip(w) ==
  [tooltipProcessors(w, NoData) EXCEPT !.tooltipContent = getTooltipContent(w, NoData)]

(***************************************************************************)
(* Configurations: ctx.settings over the defaults, and the bound entity    *)
(***************************************************************************)
BaseSettings ==
  [ tankSelectionType |-> "static",
    selectedShape |-> VCylinder,
    shapeAttributeName |-> "tankShape",
    volumeSource |-> "static",
    volumeConstant |-> JsNum(IntNum(200)),
    volumeAttributeName |-> "volume",
    volumeUnits |-> JsStr("L"),
    widgetUnitsSource |-> "static",
    units |-> JsStr("L"),
    widgetUnitsAttributeName |-> "units",
    datasourceUnits |-> JsStr("L"),
    decimals |-> 0,
    layout |-> "absolute",
    showTooltip |-> TRUE,
    tooltipUnits |-> JsStr("L"),
    tooltipLevelDecimals |-> 0,
    showTooltipLevel |-> TRUE,
    showTooltipDate |-> TRUE ]

SourceTypes == {"static", "attribute"}

\* every way of resolving shape, volume and units, rendered one way
ResolverSettings ==
  { [BaseSettings EXCEPT !.tankSelectionType = ts, !.selectedShape = sh,
                         !.volumeSource = vs, !.widgetUnitsSource = us,
                         !.widgetUnitsAttributeName = un] :
      ts \in SourceTypes, sh \in {VCylinder, JsStr("Sphere")},
      vs \in SourceTypes, us \in SourceTypes, un \in {"units", "volume"} }

\* every way of rendering, resolved from the static settings
RenderSettings ==
  { [BaseSettings EXCEPT !.selectedShape = sh, !.volumeConstant = vc,
                         !.volumeUnits = vu, !.units = u, !.datasourceUnits = du,
                         !.decimals = dec, !.layout = lay, !.showTooltip = tt,
                         !.tooltipUnits = tu] :
      sh \in {VCylinder, Rectangle},
      vc \in {JsNum(IntNum(200)), JsNum(IntNum(0))},
      vu \in {JsStr("L"), JsStr("mL")},
      u \in {Percent, JsStr("L")},
      du \in CapacityUnits,
      dec \in {0, 1},
      lay \in {"none", "percentage", "absolute"},
      tt \in BOOLEAN,
      tu \in {Percent, JsStr("L")} }

(***************************************************************************)
(* The attribute service and the resource loader                           *)
(***************************************************************************)
\* the responses of getEntityAttributes to a request for names: any of the
\* requested attributes may be missing
Attributes(names, values) == UNION {[K -> values] : K \in SUBSET names}

ShapeValues == {Rectangle, JsStr("Sphere")}
AttributeValues == {JsNum(IntNum(400)), Percent}
\* what loadJsonResource emits for a template
Templates == {JsStr("<svg/>"), Null}

Range(seq) == {seq[i] : i \in DOMAIN seq}

prepareAttributeNames ==
  (IF settings.volumeSource # "static" THEN <<settings.volumeAttributeName>> ELSE <<>>)
  \o (IF settings.widgetUnitsSource # "static"
      THEN <<settings.widgetUnitsAttributeName>> ELSE <<>>)

(***************************************************************************)
(* ngOnInit and the subscription to getData                                *)
(***************************************************************************)
NoProbe == [p |-> 0, min |-> 0, max |-> 0, done |-> FALSE, y |-> NaN]

Init ==
  /\ \/ settings \in ResolverSettings /\ entityReal \in BOOLEAN
     \/ settings \in RenderSettings /\ entityReal = TRUE
  /\ ctxData = NoData
  /\ phase = "created"
  /\ loadedSvg = Undefined
  /\ fetches = <<>>
  /\ loads = 0
  /\ tooltipImport = FALSE
  /\ widget = NewWidget
  /\ probe = NoProbe
  /\ destroyed = FALSE
  /\ followFx = FALSE

\* the switchMap of getData loading a template whatever svgMapping returned
shapeResolvedNoLookupCheck(w, shape) ==
  /\ widget' = [w EXCEPT !.shape = shape, !.svgParams = svgMapping(shape)]
  /\ phase' = "loadSVG"
  /\ loads' = loads + 1

\* the switchMap of getData on the shape getShape emitted
shapeResolved(w, shape) ==
  LET svgParams == svgMapping(shape) IN
  /\ widget' = [w EXCEPT !.shape = shape, !.svgParams = svgParams]
  /\ IF svgParams.known
     THEN phase' = "loadSVG" /\ loads' = loads + 1
     ELSE phase' = "noRender" /\ loads' = loads

\* the subscriber of ngOnInit on data {svg, volume, units}
subscriber(w, svg, volume, units) ==
  LET rendered == Truthy(svg) /\ isString(svg)
      w1 == IF rendered
            THEN LET w0 == createValueElement([w EXCEPT !.svg = TRUE])
                 IN  IF settings.showTooltip THEN createTooltip(w0) ELSE w0
            ELSE w
      w2 == IF isDefined(volume) /\ ~IsNaN(ToNumber(volume))
            THEN [w1 EXCEPT !.volume = JsNum(ToNumber(volume))] ELSE w1
      w3 == IF Truthy(units) THEN [w2 EXCEPT !.widgetUnits = units] ELSE w2
  IN  /\ widget' = update(w3, ctxData, TRUE)
      /\ tooltipImport' = (rendered /\ settings.showTooltip)
      /\ phase' = "ready"

\* getShape asking for the attribute of the NULL_UUID entity too
getShapeNoEntityCheck ==
  IF settings.tankSelectionType = "attribute"
  THEN /\ fetches' = Append(fetches, <<settings.shapeAttributeName>>)
       /\ phase' = "getShape"
       /\ widget' = declareStyles(widget)
       /\ loads' = loads
  ELSE /\ fetches' = fetches
       /\ shapeResolved(declareStyles(widget), settings.selectedShape)

getShape ==
  IF settings.tankSelectionType = "attribute" /\ entityReal
  THEN /\ fetches' = Append(fetches, <<settings.shapeAttributeName>>)
       /\ phase' = "getShape"
       /\ widget' = declareStyles(widget)
       /\ loads' = loads
  ELSE /\ fetches' = fetches
       /\ shapeResolved(declareStyles(widget), settings.selectedShape)

ngOnInit ==
  /\ phase = "created"
  /\ getShape
  /\ UNCHANGED <<settings, entityReal, ctxData, loadedSvg, tooltipImport, probe, destroyed, followFx>>

\* the subscriber handed the response's values with no static default
SecondaryFetchedNoDefault(attributes) ==
  /\ phase = "getSecondaryResources"
  /\ subscriber(widget, loadedSvg,
       extractValue(attributes, settings.volumeAttributeName, Undefined),
       extractValue(attributes, settings.widgetUnitsAttributeName, Undefined))
  /\ UNCHANGED <<settings, entityReal, ctxData, loadedSvg, fetches, loads, probe, destroyed, followFx>>

\* the shape attribute request answers
ShapeFetched(attributes) ==
  /\ phase = "getShape"
  /\ shapeResolved(widget,
       extractValue(attributes, settings.shapeAttributeName, settings.selectedShape))
  /\ UNCHANGED <<settings, entityReal, ctxData, loadedSvg, fetches, tooltipImport, probe, destroyed, followFx>>

\* getSecondaryResources issuing one request per attribute name
getSecondaryResourcesPerName(svg) ==
  LET attributeNames == prepareAttributeNames IN
  IF Len(attributeNames) = 0 \/ ~entityReal
  THEN /\ subscriber(widget, svg, settings.volumeConstant, settings.units)
       /\ UNCHANGED <<fetches, loadedSvg>>
  ELSE /\ fetches' = fetches \o [i \in DOMAIN attributeNames |-> <<attributeNames[i]>>]
       /\ loadedSvg' = svg
       /\ phase' = "getSecondaryResources"
       /\ UNCHANGED <<widget, tooltipImport>>

getSecondaryResources(svg) ==
  LET attributeNames == prepareAttributeNames IN
  IF Len(attributeNames) = 0 \/ ~entityReal
  THEN /\ subscriber(widget, svg, settings.volumeConstant, settings.units)
       /\ UNCHANGED <<fetches, loadedSvg>>
  ELSE /\ fetches' = Append(fetches, attributeNames)
       /\ loadedSvg' = svg
       /\ phase' = "getSecondaryResources"
       /\ UNCHANGED <<widget, tooltipImport>>

\* loadSVG emits the template
SvgLoaded(svg) ==
  /\ phase = "loadSVG"
  /\ getSecondaryResources(svg)
  /\ UNCHANGED <<settings, entityReal, ctxData, loads, probe, destroyed, followFx>>

\* the volume/units attribute request answers
SecondaryFetched(attributes) ==
  /\ phase = "getSecondaryResources"
  /\ subscriber(widget, loadedSvg,
       extractValue(attributes, settings.volumeAttributeName, settings.volumeConstant),
       extractValue(attributes, settings.widgetUnitsAttributeName, settings.units))
  /\ UNCHANGED <<settings, entityReal, ctxData, loadedSvg, fetches, loads, probe, destroyed, followFx>>

\* a request or the template load fails: the subscription ends, no handler runs
ResolutionError ==
  /\ phase \in {"getShape", "loadSVG", "getSecondaryResources"}
  /\ phase' = "failed"
  /\ UNCHANGED <<settings, entityReal, ctxData, loadedSvg, fetches, loads,
                 tooltipImport, widget, probe, destroyed, followFx>>

\* import('tooltipster') of createTooltip resolves
TooltipCreated ==
  /\ tooltipImport
  /\ tooltipImport' = FALSE
  /\ widget' = [widget EXCEPT !.tooltip = TRUE, !.shownTooltip = NoTooltipContent,
                              !.tooltips = (IF widget.tooltip THEN @ - 1 ELSE @) + 1]
  /\ UNCHANGED <<settings, entityReal, ctxData, phase, loadedSvg, fetches, loads, probe, destroyed, followFx>>

\* a data update of the subscription: ctx.data changes and update() is called
Update(m) ==
  /\ phase # "created"
  /\ ~destroyed
  /\ followFx => Len(widget.fxQueue) < MaxQueue
  /\ ctxData' = m
  /\ widget' = update(widget, m, FALSE)
  /\ UNCHANGED <<settings, entityReal, phase, loadedSvg, fetches, loads,
                 tooltipImport, probe, destroyed, followFx>>

Next ==
  \/ ngOnInit
  \/ \E a \in Attributes({settings.shapeAttributeName}, ShapeValues) : ShapeFetched(a)
  \/ \E svg \in Templates : SvgLoaded(svg)
  \/ \E a \in Attributes(Range(prepareAttributeNames), AttributeValues) : SecondaryFetched(a)
  \/ ResolutionError
  \/ TooltipCreated
  \/ \E m \in Measurements \cup {NoData} : Update(m)

Spec == Init /\ [][Next]_vars

(***************************************************************************)
(* The widget with its animations, its tooltip and its teardown followed   *)
(***************************************************************************)
LifeSettings ==
  { [BaseSettings EXCEPT !.tankSelectionType = src, !.volumeSource = src,
                         !.widgetUnitsSource = src, !.datasourceUnits = du] :
      src \in SourceTypes, du \in {Percent, JsStr("L")} }

InitLife ==
  /\ settings \in LifeSettings
  /\ entityReal = TRUE
  /\ ctxData = NoData
  /\ phase = "created"
  /\ loadedSvg = Undefined
  /\ fetches = <<>>
  /\ loads = 0
  /\ tooltipImport = FALSE
  /\ widget = NewWidget
  /\ probe = NoProbe
  /\ destroyed = FALSE
  /\ followFx = TRUE

\* the running animation of the liquid elements reaches its target; the
\* next one of the fx queue starts
AnimationDone ==
  /\ widget.fxQueue # <<>>
  /\ widget' = [widget EXCEPT !.surfaceY = JsNum(Head(widget.fxQueue)),
                              !.fxQueue = Tail(@)]
  /\ UNCHANGED <<settings, entityReal, ctxData, phase, loadedSvg, fetches, loads,
                 tooltipImport, probe, destroyed, followFx>>

\* destroy() has an empty body: the subscription of ngOnInit, the import of
\* createTooltip and the animations stay as they are; the framework stops
\* calling update()
destroy ==
  /\ phase # "created"
  /\ ~destroyed
  /\ destroyed' = TRUE
  /\ UNCHANGED <<settings, entityReal, ctxData, phase, loadedSvg, fetches, loads,
                 tooltipImport, widget, probe, followFx>>

\* the pointer enters the svg: tooltipster calls functionBefore, which sets
\* the instance's content from this.tooltipContent, and opens the tooltip
TooltipOpened ==
  /\ widget.tooltip
  /\ ~widget.tooltipOpen
  /\ ~destroyed
  /\ widget' = [widget EXCEPT !.shownTooltip = widget.tooltipContent,
                              !.tooltipOpen = TRUE]
  /\ UNCHANGED <<settings, entityReal, ctxData, phase, loadedSvg, fetches, loads,
                 tooltipImport, probe, destroyed, followFx>>

\* triggerClose: a click, a tap, a scroll or the pointer leaving closes it
TooltipClosed ==
  /\ widget.tooltipOpen
  /\ widget' = [widget EXCEPT !.tooltipOpen = FALSE]
  /\ UNCHANGED <<settings, entityReal, ctxData, phase, loadedSvg, fetches, loads,
                 tooltipImport, probe, destroyed, followFx>>

NextLife ==
  \/ Next
  \/ AnimationDone
  \/ destroy
  \/ TooltipOpened
  \/ TooltipClosed

SpecLife == InitLife /\ [][NextLife]_vars

(***************************************************************************)
(* The position calculator on its own                                      *)
(***************************************************************************)
ProbePercentages == {10 * k : k \in (0 - MaxProbe) .. (10 + MaxProbe)}
ProbeLimits == {20 * k : k \in 0 .. MaxLimit}

Limits(min, max) == [min |-> IntNum(min), max |-> IntNum(max)]

InitPos ==
  /\ settings = BaseSettings
  /\ entityReal = TRUE
  /\ ctxData = NoData
  /\ phase = "created"
  /\ loadedSvg = Undefined
  /\ fetches = <<>>
  /\ loads = 0
  /\ tooltipImport = FALSE
  /\ widget = NewWidget
  /\ probe \in [p : ProbePercentages, min : ProbeLimits, max : ProbeLimits,
                done : {FALSE}, y : {NaN}]
  /\ destroyed = FALSE
  /\ followFx = FALSE

Position ==
  /\ ~probe.done
  /\ probe' = [probe EXCEPT !.done = TRUE,
                            !.y = calculatePosition(IntNum(probe.p),
                                                    Limits(probe.min, probe.max))]
  /\ UNCHANGED <<settings, entityReal, ctxData, phase, loadedSvg, fetches, loads,
                 tooltipImport, widget, destroyed, followFx>>

NextPos == Position

SpecPos == InitPos /\ [][NextPos]_vars

(***************************************************************************)
(* Properties                                                              *)
(***************************************************************************)
\* the measurement is missing, or its value is undefined or null
Aborting(data) == ~data.present \/ ~isDefinedAndNotNull(data.value)

\* a step of update(): the subscription and the tooltip import stand still
UpdateStep == phase # "created" /\ phase' = phase /\ tooltipImport' = tooltipImport

\* nothing was rendered and no tick ran: only the colour processors of
\* declareStyles and the shape lookup of getData may have been set
Unrendered(w) ==
  \/ w = [NewWidget EXCEPT !.shape = w.shape, !.svgParams = w.svgParams]
  \/ w = [declareStyles(NewWidget) EXCEPT !.shape = w.shape, !.svgParams = w.svgParams,
                                          !.volume = w.volume,
                                          !.widgetUnits = w.widgetUnits]

\* C1: an update() tick whose measurement is missing, or has an undefined or
\* null value, leaves every colour processor, the liquid coordinate, the
\* shape/liquid/overlay colours, the readout and the tooltip content as they
\* were before the tick.
C1_AbortLeavesVisualState ==
  [][(UpdateStep /\ Aborting(ctxData')) => widget' = widget]_vars

\* C1 witness: after an accepted tick painted the level, a tick with a null
\* or undefined value (or no measurement) has run.
C1_Witness ==
  /\ widget.svg
  /\ isNumber(widget.percentage)
  /\ ctxData.present
  /\ ctxData.value = Null

\* C2: nothing is rendered and no tick mutates anything before the
\* subscription has delivered: update() is a no-op while the shape request,
\* the template load or the volume/units request is pending, and these
\* complete in the order shape, template, secondary values.
C2_NoRenderBeforeResolution ==
  /\ phase # "ready" => Unrendered(widget) /\ ~tooltipImport
  /\ phase = "created" => widget.shape = Undefined /\ loads = 0 /\ fetches = <<>>
  /\ phase = "getShape" => widget.shape = Undefined /\ loads = 0
  /\ phase \in {"loadSVG", "getSecondaryResources", "ready"} =>
       widget.svgParams = svgMapping(widget.shape) /\ widget.svgParams.known /\ loads = 1
  /\ phase = "loadSVG" => loadedSvg = Undefined /\ widget.volume = Undefined
  /\ phase = "getSecondaryResources" =>
       /\ loadedSvg \in Templates
       /\ fetches # <<>> /\ fetches[Len(fetches)] = prepareAttributeNames
       /\ widget.volume = Undefined /\ widget.widgetUnits = Undefined
  /\ widget.svg => phase = "ready"

\* C2 witness: update() has been called with a numeric measurement while the
\* volume/units request was pending.
C2_Witness ==
  /\ phase = "getSecondaryResources"
  /\ ctxData.present
  /\ isNumber(ctxData.value)

\* C3: with a resolved shape that svgMapping does not hold the widget is in
\* the no-render state and stays there: no template is loaded, no
\* volume/units request is issued, nothing is retried and no update() tick
\* changes anything.
C3_UnknownShapeIsTerminal ==
  /\ [](widget.shape # Undefined /\ ~svgMapping(widget.shape).known => phase = "noRender")
  /\ [](phase = "noRender" =>
          /\ ~svgMapping(widget.shape).known
          /\ loads = 0
          /\ \A i \in DOMAIN fetches : fetches[i] = <<settings.shapeAttributeName>>
          /\ Len(fetches) <= 1
          /\ ~widget.svg
          /\ Unrendered(widget))
  /\ [][phase = "noRender" =>
          /\ phase' = "noRender"
          /\ UNCHANGED <<widget, fetches, loads, loadedSvg, tooltipImport>>]_vars

\* C3 witness: in the no-render state, reached through a fetched shape,
\* update() has been called with a numeric measurement.
C3_Witness ==
  /\ phase = "noRender"
  /\ Len(fetches) = 1
  /\ ctxData.present
  /\ isNumber(ctxData.value)

\* C4: calculatePosition returns limits.max for p >= 100, limits.min for
\* p <= 0 and min + (p/100)*(max-min) in between, also for min > max; so it
\* is strictly monotonic in p over [0,100] when min differs from max.
C4_PositionFormula ==
  probe.done =>
    /\ probe.p >= 100 => probe.y = <<probe.max, 1>>
    /\ probe.p <= 0 => probe.y = <<probe.min, 1>>
    /\ (probe.p > 0 /\ probe.p < 100) =>
         /\ probe.y[2] > 0
         /\ 100 * probe.y[1] =
              probe.y[2] * (100 * probe.min + probe.p * (probe.max - probe.min))
    /\ \A q \in ProbePercentages :
         (0 <= probe.p /\ probe.p < q /\ q <= 100) =>
           LET yq == calculatePosition(IntNum(q), Limits(probe.min, probe.max)) IN
           /\ probe.min < probe.max => (Leq(probe.y, yq) /\ probe.y # yq)
           /\ probe.min > probe.max => (Geq(probe.y, yq) /\ probe.y # yq)

\* C4 witness: limits (180, 20) and p = 50 give 100.
C4_Witness ==
  probe.done /\ probe.min = 180 /\ probe.max = 20 /\ probe.p = 50 /\ probe.y = <<100, 1>>

\* the component was rendered and its last tick read the measurement ctxData
TickedOn(data) == widget.svg /\ ctxData = data

\* the percentage of raw (an integer) by the conversion rule, from the
\* factors of the units: 100 * raw * f(ds) / (volume * f(vu))
ExpectedPercentage(raw) ==
  IF settings.datasourceUnits = Percent THEN <<raw, 1>>
  ELSE IF widget.volume = Undefined THEN NaN
  ELSE LET ds == LitersPerUnit(settings.datasourceUnits)
           vu == LitersPerUnit(settings.volumeUnits)
           v == widget.volume.num
       IN  Norm(100 * raw * ds[1] * v[2] * vu[2], ds[2] * v[1] * vu[1])

\* C5: for a numeric measurement the percentage of the tick is the raw value
\* when the data source unit is percent, and otherwise the raw value in
\* liters over the vessel capacity in liters, times 100; with display unit
\* percent the readout is that percentage formatted to the configured
\* decimals (50 L in a 200 L vessel: percentage 25, readout "25").
C5_PercentageOfNumericValue ==
  (widget.svg /\ ctxData.present /\ isNumber(ctxData.value)) =>
    LET raw == ctxData.value.num[1]
        expected == ExpectedPercentage(raw)
    IN  /\ widget.percentage = JsNum(expected)
        /\ widget.widgetUnits = Percent =>
             /\ widget.value = toFixed(expected, settings.decimals)
             /\ ~widget.thrown
        /\ ( /\ settings.datasourceUnits = JsStr("L")
             /\ settings.volumeUnits = JsStr("L")
             /\ widget.volume = JsNum(<<200, 1>>)
             /\ raw = 50 ) =>
             /\ widget.percentage = JsNum(<<25, 1>>)
             /\ (widget.widgetUnits = Percent /\ settings.decimals = 0) => widget.value = "25"

\* C5 witness: 50 L in a 200 L vessel shown in percent: percentage 25, readout "25".
C5_Witness ==
  /\ TickedOn(Measurement(1, JsNum(<<50, 1>>)))
  /\ settings.datasourceUnits = JsStr("L")
  /\ settings.volumeUnits = JsStr("L")
  /\ widget.volume = JsNum(<<200, 1>>)
  /\ widget.widgetUnits = Percent
  /\ widget.percentage = JsNum(<<25, 1>>)
  /\ widget.value = "25"

\* C6: for a value that is defined and not null but no number the tick uses
\* percentage 0 for geometry and colours (the coordinate is limits.min)
\* while the readout is "N/A", never "0".
C6_NonNumericValue ==
  ( /\ widget.svg /\ ctxData.present
    /\ isDefinedAndNotNull(ctxData.value) /\ ~isNumber(ctxData.value) ) =>
    /\ widget.percentage = JsNum(IntNum(0))
    /\ widget.liquidY = JsNum(widget.svgParams.min)
    /\ widget.tankColor = JsNum(IntNum(0))
    /\ widget.shapeColor = JsNum(IntNum(0))
    /\ widget.liquidColor = JsNum(IntNum(0))
    /\ widget.liquidFill = JsNum(IntNum(0))
    /\ widget.backgroundOverlayColor = JsNum(IntNum(0))
    /\ widget.value = "N/A"
    /\ widget.valueColor = JsStr("N/A")
    /\ settings.layout = "percentage" => widget.percentageContent.value = "N/A"
    /\ (settings.layout = "absolute" /\ ValidUnit(widget.widgetUnits)) =>
         widget.absoluteContent.value = "N/A"

\* C6 witness: a tick on the text "abc" after the level had been animated
\* somewhere else, in the percentage layout.
C6_Witness ==
  /\ TickedOn(Measurement(1, JsStr("abc")))
  /\ widget.liquidMove = "animate"
  /\ settings.layout = "percentage"
  /\ widget.percentageContent.value = "N/A"
  /\ widget.liquidY = JsNum(widget.svgParams.min)

\* C7 as stated: a tick whose value is no number, or absent, keeps the
\* liquid coordinate an earlier tick had set.
C7_NonNumericKeepsPosition ==
  [][( /\ UpdateStep /\ widget.svg /\ isNumber(widget.liquidY)
       /\ ~(ctxData'.present /\ isNumber(ctxData'.value)) ) =>
       widget'.liquidY = widget.liquidY]_vars

\* C7 amended: a tick whose value is defined and not null but no number
\* moves the liquid coordinate to limits.min and shows "N/A"; a tick whose
\* measurement is absent or whose value is undefined or null keeps the
\* coordinate and the label; neither value makes the tick fail (only a
\* display unit that is no capacity unit does).
C7_NonNumericMovesToMin ==
  [][(UpdateStep /\ widget.svg) =>
       /\ ( /\ ctxData'.present /\ isDefinedAndNotNull(ctxData'.value)
            /\ ~isNumber(ctxData'.value) ) =>
            /\ widget'.liquidY = JsNum(widget.svgParams.min)
            /\ widget'.liquidMove = "animate"
            /\ widget'.value = "N/A"
            /\ (widget'.thrown /\ ~widget.thrown) => ~ValidUnit(widget.widgetUnits)
       /\ Aborting(ctxData') =>
            /\ widget'.liquidY = widget.liquidY
            /\ widget'.value = widget.value
            /\ widget'.thrown = widget.thrown]_vars

\* C7 witness: update() has run on the text "abc" and the level is at limits.min.
C7_Witness ==
  /\ TickedOn(Measurement(1, JsStr("abc")))
  /\ widget.liquidMove = "animate"
  /\ widget.liquidY = JsNum(widget.svgParams.min)
  /\ widget.value = "N/A"
  /\ ~widget.thrown

\* C8: at most two attribute requests are issued over the life of the
\* widget, at most one for the shape and at most one for volume/units, and
\* no update() tick issues one.
C8_AtMostTwoFetches ==
  /\ [](/\ Len(fetches) <= 2
        /\ Len(fetches) = 1 =>
             fetches[1] \in {<<settings.shapeAttributeName>>, prepareAttributeNames}
        /\ Len(fetches) = 2 =>
             /\ fetches[1] = <<settings.shapeAttributeName>>
             /\ fetches[2] = prepareAttributeNames)
  /\ [][(UpdateStep \/ phase \in {"ready", "noRender", "failed"}) =>
          fetches' = fetches]_vars

\* C8 witness: both requests were issued and update() ticks have painted since.
C8_Witness ==
  /\ Len(fetches) = 2
  /\ phase = "ready"
  /\ widget.liquidMove = "animate"
  /\ ctxData.present /\ isNumber(ctxData.value)

\* C9: with the NULL_UUID entity no attribute request is issued, whatever
\* the sources of shape, volume and units, and the resolved shape, volume
\* and units are the values of the settings.
C9_NullEntityUsesSettings ==
  ~entityReal =>
    /\ fetches = <<>>
    /\ phase # "created" => widget.shape = settings.selectedShape
    /\ phase \notin {"getShape", "getSecondaryResources"}
    /\ phase = "ready" =>
         /\ widget.volume = settings.volumeConstant
         /\ widget.widgetUnits = settings.units

\* C9 witness: the NULL_UUID entity with shape, volume and units all
\* configured as attributes, rendered.
C9_Witness ==
  /\ ~entityReal
  /\ settings.tankSelectionType = "attribute"
  /\ settings.volumeSource = "attribute"
  /\ settings.widgetUnitsSource = "attribute"
  /\ phase = "ready"
  /\ widget.svg

\* the request for volume/units, if one was issued
SecondaryRequests ==
  {i \in DOMAIN fetches : fetches[i] # <<settings.shapeAttributeName>>}

\* C10: with a real entity and volume or units taken from an attribute,
\* one request is issued for exactly the names of the attribute-driven
\* fields, and a field that is not taken from an attribute resolves to its
\* static setting whatever the response holds, also when both fields are
\* configured with the same attribute name.
C10_StaticFieldKeepsSetting ==
  (phase = "ready" /\ entityReal /\ Len(prepareAttributeNames) > 0) =>
    /\ Cardinality(SecondaryRequests) = 1
    /\ \A i \in SecondaryRequests :
         Range(fetches[i]) =
           (IF settings.volumeSource = "attribute"
              THEN {settings.volumeAttributeName} ELSE {})
           \cup (IF settings.widgetUnitsSource = "attribute"
                   THEN {settings.widgetUnitsAttributeName} ELSE {})
    /\ settings.volumeSource = "static" => widget.volume = settings.volumeConstant
    /\ settings.widgetUnitsSource = "static" => widget.widgetUnits = settings.units

\* C10, the part that holds of the code: exactly one request, for the names
\* of the attribute-driven fields.
C10_OneRequestForNeededNames ==
  (phase = "ready" /\ entityReal /\ Len(prepareAttributeNames) > 0) =>
    /\ Cardinality(SecondaryRequests) = 1
    /\ \A i \in SecondaryRequests :
         Range(fetches[i]) =
           (IF settings.volumeSource = "attribute"
              THEN {settings.volumeAttributeName} ELSE {})
           \cup (IF settings.widgetUnitsSource = "attribute"
                   THEN {settings.widgetUnitsAttributeName} ELSE {})
    /\ settings.volumeAttributeName # settings.widgetUnitsAttributeName =>
         /\ settings.volumeSource = "static" => widget.volume = settings.volumeConstant
         /\ settings.widgetUnitsSource = "static" => widget.widgetUnits = settings.units

\* the responses the volume/units request may get
SecondaryResponses == Attributes(Range(prepareAttributeNames), AttributeValues)

\* C11: when the response to the volume/units request lacks a requested
\* attribute, the field resolves to its static setting (volumeConstant,
\* units), and on an empty response both do and nothing is thrown.
C11_MissingAttributeFallsBack ==
  [][\A a \in SecondaryResponses :
       SecondaryFetched(a) =>
         /\ settings.volumeAttributeName \notin DOMAIN a =>
               widget'.volume = settings.volumeConstant
         /\ settings.widgetUnitsAttributeName \notin DOMAIN a =>
               widget'.widgetUnits = settings.units
         /\ DOMAIN a = {} => ~widget'.thrown]_vars

\* C11 witness: two attributes were requested from a real entity, the
\* response held neither, and the widget rendered with the static values.
C11_Witness ==
  /\ phase = "ready"
  /\ entityReal
  /\ Len(prepareAttributeNames) = 2
  /\ settings.volumeAttributeName # settings.widgetUnitsAttributeName
  /\ SecondaryRequests # {}
  /\ widget.svg
  /\ widget.volume = settings.volumeConstant
  /\ widget.widgetUnits = settings.units
  /\ ~widget.thrown

\* C12: with the shape taken from an attribute of a real entity, a fetched
\* shape that is missing or is not a shape svgMapping knows falls back to
\* settings.selectedShape, so the widget resolves the static shape.
C12_InvalidShapeFallsBack ==
  (settings.tankSelectionType = "attribute" /\ entityReal
     /\ widget.shape # Undefined) =>
    \/ svgMapping(widget.shape).known
    \/ widget.shape = settings.selectedShape

\* C13: a measurement that arrives while the level animation of an earlier
\* one is running supersedes it: only the transition to the newest target
\* is in flight, no queue of animations builds up, and the surface never
\* comes to rest on a target older than the newest tick's.
C13_LastWriteWins ==
  /\ [](Len(widget.fxQueue) <= 1)
  /\ [][widget'.surfaceY # widget.surfaceY =>
          widget'.surfaceY = widget'.liquidY]_vars

\* C14: after destroy(), the completion of a request, of the template load,
\* of the tooltip import or of an animation that was in flight changes no
\* field of the component and nothing of the DOM, and raises no error.
C14_TeardownCompletionsAreNoOps ==
  [][destroyed => widget' = widget]_vars

\* C15: the first tick that paints the level moves the liquid at once
\* (css), and every later painting tick moves it by animate(); also when
\* the subscriber found no measurement and the first one comes with a later
\* update().
C15_FirstPaintIsImmediate ==
  [][/\ (widget.liquidMove = "none" /\ widget'.liquidMove # "none") =>
          widget'.liquidMove = "css"
     /\ (widget.liquidMove # "none" /\ UpdateStep /\ ~Aborting(ctxData')) =>
          widget'.liquidMove = "animate"]_vars

\* the level a tooltip in unit tooltipUnits shows for a percentage of the
\* capacity: the percentage of the capacity in liters, then in tooltipUnits
ExpectedTooltipLevel(w, percentage) ==
  toFixed(convertLiters(Mul(convertLiters(ToNumber(w.volume), settings.volumeUnits, "to"),
                            Div(percentage, IntNum(100))),
                        settings.tooltipUnits, "from"),
          settings.tooltipLevelDecimals) \o settings.tooltipUnits.str

\* C16: for a numeric measurement and a tooltip unit other than percent, the
\* level of the tooltip is the tick's percentage of the capacity, in liters,
\* converted into the tooltip unit, whatever the display unit is, percent
\* included.
C16_TooltipLevelChain ==
  (/\ widget.svg
   /\ settings.showTooltip /\ settings.showTooltipLevel
   /\ settings.tooltipUnits # Percent
   /\ ctxData.present /\ isNumber(ctxData.value)
   /\ ~widget.thrown) =>
    widget.tooltipContent.level = ExpectedTooltipLevel(widget, widget.percentage.num)

\* the vessel-volume readout of the absolute layout: the capacity in liters,
\* then in the display unit
ExpectedVolumeReadout(w) ==
  toFixed(convertLiters(convertLiters(ToNumber(w.volume), settings.volumeUnits, "to"),
                        w.widgetUnits, "from"),
          settings.decimals)

TickSteps(hadTooltip) ==
  <<"percentage", "calculatePosition", "tankColor.update", "shape.attr",
    "liquidColor.update", "liquid.move", "liquid.attr",
    "value", "valueColor.update", "backgroundOverlayColor.update">>
  \o (IF settings.layout \in {"absolute", "percentage"}
      THEN <<"overlayContainer.attr", "container.html">> ELSE <<>>)
  \o (IF settings.showTooltip
      THEN <<"tooltipContent">> \o (IF hadTooltip THEN <<"tooltip.content">> ELSE <<>>)
      ELSE <<>>)

\* a step in which a tick is accepted: update() or the subscriber's
\* update(true) on a rendered widget with a measurement whose value is
\* defined and not null
AcceptedTick ==
  /\ widget'.svg
  /\ ~Aborting(ctxData')
  /\ UpdateStep \/ (phase # "ready" /\ phase' = "ready")

\* C18: every accepted tick does the same steps in the same order and runs
\* to its end: percentage, coordinate, tank colour processor and shape
\* colour, liquid colour processor, move and colour of the liquid, readout
\* and value colour processor, overlay colour processor and overlay colour,
\* the numeric overlay, and with tooltips enabled the tooltip content, pushed
\* to the instance if there is one.
C18_FixedOrderToCompletion ==
  [][AcceptedTick => widget'.steps = TickSteps(widget.tooltip)]_vars

\* C18 as the code has it: a tick whose display unit is no capacity unit is
\* ended by InvalidUnit, after the liquid was moved if the value is a
\* number, after the overlay colour was applied if it is not (absolute
\* layout); every other accepted tick runs the whole sequence, and the steps
\* that run keep the order.
C18_FixedOrderUnlessInvalidUnit ==
  [][AcceptedTick =>
       widget'.steps =
         IF ~valueElementThrows(widget', ctxData'.value)
         THEN TickSteps(widget.tooltip)
         ELSE IF isNumber(ctxData'.value)
         THEN SubSeq(TickSteps(widget.tooltip), 1, 7)
         ELSE SubSeq(TickSteps(widget.tooltip), 1, 11)]_vars

\* C18 witness: a tick ran all fourteen steps, the push to the tooltipster
\* instance last.
C18_Witness ==
  /\ widget.svg /\ widget.tooltip /\ ~widget.thrown
  /\ ~Aborting(ctxData)
  /\ Len(widget.steps) = 14
  /\ widget.steps = TickSteps(TRUE)
  /\ widget.shownTooltip = widget.tooltipContent

\* y is a number between a and b, whichever is the larger
Between(y, a, b) ==
  /\ IsFinite(y)
  /\ \/ Leq(a, y) /\ Leq(y, b)
     \/ Leq(b, y) /\ Leq(y, a)

\* C19: after an accepted tick with a numeric value the coordinate of the
\* liquid surface is a number between limits.min and limits.max, whatever
\* the capacity is, zero or not a number included.
C19_CoordinateWithinLimits ==
  (widget.svg /\ ctxData.present /\ isNumber(ctxData.value)) =>
    /\ widget.liquidY.t = "number"
    /\ Between(widget.liquidY.num, widget.svgParams.min, widget.svgParams.max)

\* the last accepted tick was ended by InvalidUnit before updateTooltip
LastTickThrew ==
  widget.steps # <<>> /\ "tooltipContent" \notin Range(widget.steps)

\* C20: the tooltipster instance may be created before or after any number
\* of ticks; whenever the tooltip is open it shows the content built from
\* the last accepted measurement, the "N/A" content if none was accepted,
\* and there is never more than one instance.
C20_TooltipShowsLastAccepted ==
  /\ widget.tooltips <= 1
  /\ widget.tooltipOpen =>
       widget.shownTooltip = getTooltipContent(widget, widget.accepted)

\* C20 as the code has it: the open tooltip shows the content of the last
\* accepted measurement whose tick reached updateTooltip; a tick ended by
\* InvalidUnit leaves the tooltip content as it was (the "N/A" content of
\* createTooltip if the tick is the subscriber's).
C20_TooltipShowsLastCompletedTick ==
  /\ [](widget.tooltips <= 1)
  /\ [](widget.tooltipOpen => widget.shownTooltip = widget.tooltipContent)
  /\ []((widget.tooltipOpen /\ ~LastTickThrew) =>
          widget.shownTooltip = getTooltipContent(widget, widget.accepted))
  /\ [][(widget'.accepted # widget.accepted
          /\ valueElementThrows(widget', widget'.accepted.value)) =>
          /\ widget'.tooltipContent =
               (IF widget.svg THEN widget.tooltipContent
                              ELSE getTooltipContent(widget', NoData))
          /\ widget'.shownTooltip = widget.shownTooltip]_vars

\* C20 witness: the instance was created after the tick of a numeric
\* measurement, and the tooltip, opened later, shows that measurement.
C20_Witness ==
  /\ widget.tooltipOpen
  /\ widget.tooltips = 1
  /\ widget.accepted.present /\ isNumber(widget.accepted.value)
  /\ "tooltipContent" \in Range(widget.steps)
  /\ "tooltip.content" \notin Range(widget.steps)
  /\ widget.shownTooltip = getTooltipContent(widget, widget.accepted)
  /\ widget.shownTooltip.level # "N/A"

====
